---------------------------- MODULE Spec2Model ----------------------------
(***************************************************************************)
(* A model of the UFC Elo pipeline: classify_methods.py (classify_row),    *)
(* elo_calculator/elo_update.py (run_elo) and compute_peak_elo.py          *)
(* (build_long_from_history, compute_peak).                                *)
(*                                                                         *)
(* Representation.                                                         *)
(*  - A text is a tuple of one-character strings, so that strip, lower,    *)
(*    whitespace collapsing and substring search are computed character by *)
(*    character.  A missing CSV cell (pandas NaN) is the text NaN.         *)
(*  - Numbers are decimal fixed point.  A multiplier is an integer number  *)
(*    of tenths (MScale), a probability an integer number of 1e-5          *)
(*    (PScale), a rating an integer number of 1e-6 rating points           *)
(*    (RScale = MScale * PScale), so that K_eff * (score - p) is exact.    *)
(*    The rounding of binary floating point (about 1e-13 rating points) is *)
(*    below this resolution and is not modelled.                           *)
(***************************************************************************)
EXTENDS Integers, Sequences, FiniteSets, TLC

(***************************************************************************)
(* Bounds of the model.                                                    *)
(***************************************************************************)
MaxRows == 2

(***************************************************************************)
(* Fixed-point resolution.                                                 *)
(***************************************************************************)
MScale == 2 * 5
PScale == 100 * 1000
RScale == MScale * PScale
PowScale == 100 * 1000

(***************************************************************************)
(* Texts.                                                                  *)
(***************************************************************************)
NaN == <<"NaN">>

UpperLetters ==
  <<"A","B","C","D","E","F","G","H","I","J","K","L","M",
    "N","O","P","Q","R","S","T","U","V","W","X","Y","Z">>

LowerLetters ==
  <<"a","b","c","d","e","f","g","h","i","j","k","l","m",
    "n","o","p","q","r","s","t","u","v","w","x","y","z">>

Digits == <<"0","1","2","3","4","5","6","7","8","9">>

\* The characters of the model in code-point order.
CodePoints ==
  <<"\t"," ",",","-",".","/">> \o Digits \o UpperLetters \o <<"_">> \o LowerLetters

Ord(c) == CHOOSE i \in 1..Len(CodePoints) : CodePoints[i] = c

IsSpace(c) == c \in {" ", "\t"}

IsDigit(c) == \E i \in 1..Len(Digits) : Digits[i] = c

DigitVal(c) == (CHOOSE i \in 1..Len(Digits) : Digits[i] = c) - 1

LowerChar(c) ==
  IF \E i \in 1..26 : UpperLetters[i] = c
  THEN LowerLetters[CHOOSE i \in 1..26 : UpperLetters[i] = c]
  ELSE c

\* str.lower()
Lower(s) == [i \in 1..Len(s) |-> LowerChar(s[i])]

RECURSIVE LStrip(_)
LStrip(s) == IF s # <<>> /\ IsSpace(Head(s)) THEN LStrip(Tail(s)) ELSE s

RECURSIVE RStrip(_)
RStrip(s) ==
  IF s # <<>> /\ IsSpace(s[Len(s)]) THEN RStrip(SubSeq(s, 1, Len(s) - 1)) ELSE s

\* str.strip()
Strip(s) == RStrip(LStrip(s))

\* SPACE_RE.sub(" ", s): every run of whitespace becomes one space.
RECURSIVE CollapseSpaces(_)
CollapseSpaces(s) ==
  IF s = <<>> THEN <<>>
  ELSE IF IsSpace(Head(s))
       THEN <<" ">> \o CollapseSpaces(LStrip(s))
       ELSE <<Head(s)>> \o CollapseSpaces(Tail(s))

\* str(x) of a CSV cell: a missing cell prints as "nan".
Str(s) == IF s = NaN THEN <<"n","a","n">> ELSE s

\* a < b for Python strings (code-point lexicographic order).
RECURSIVE TextLess(_, _)
TextLess(a, b) ==
  IF b = <<>> THEN FALSE
  ELSE IF a = <<>> THEN TRUE
  ELSE IF Head(a) = Head(b) THEN TextLess(Tail(a), Tail(b))
  ELSE Ord(Head(a)) < Ord(Head(b))

\* "needle in hay"
Contains(hay, needle) ==
  \E i \in 1..(Len(hay) - Len(needle) + 1) :
     SubSeq(hay, i, i + Len(needle) - 1) = needle

(***************************************************************************)
(* elo_update.py: helpers.                                                 *)
(***************************************************************************)
norm(s) == IF s = NaN THEN <<>> ELSE CollapseSpaces(Strip(Str(s)))

key_from_name(name) == Lower(norm(name))

\* EloConfig defaults.
base_rating == 1500
K == 24
scale == 350

BaseRating == base_rating * RScale

\* 10^(a/7), 10^(b/35), 10^(c/350) in units of 1/PowScale.
Pow7 == <<100000, 138950, 193070, 268270, 372759, 517947, 719686>>
Pow35 == <<100000, 106800, 114062, 121819, 130103>>
Pow350 == <<100000, 100660, 101324, 101993, 102666,
            103344, 104026, 104713, 105404, 106100>>

\* floor(a * b / PowScale) without leaving 32 bits (a <= 2e6, b < 2^31 / a * 1000).
MulPow(a, b) == (a * (b \div 1000)) \div 100 + (a * (b % 1000)) \div PowScale

\* 10^(g / scale) for a fraction g of a rating point (in 1/RScale):
\* 1 + z + z^2/2 with z = g * ln(10) / scale, ln(10)/350 = 0.006578...
PowFrac(g) ==
  LET lin == (g * 658) \div RScale
  IN  PowScale + lin + (lin * lin) \div (2 * PowScale)

\* The mantissa of 10^(d / scale), d >= 0 in 1/RScale rating points: the value
\* for the exponent reduced to [0, 1), in units of 1/PowScale.
PowMantissa(d) ==
  LET w == (d \div RScale) % scale
      a == w \div 50
      b == (w % 50) \div 10
      c == w % 10
  IN  MulPow(MulPow(MulPow(Pow350[c + 1], PowFrac(d % RScale)), Pow35[b + 1]),
             Pow7[a + 1])

\* 1 / (1 + 10^(d / scale)) for d >= 0, in units of 1/PScale.
LogisticUpper(d) ==
  LET q == (d \div RScale) \div scale
      m == PowMantissa(d)
  IN  IF q >= 6 THEN 0
      ELSE IF q >= 3 THEN (PScale * 100) \div (100 + m * 10^(q - 3))
      ELSE LET den == PowScale + m * 10^q
               hi  == (PScale * 10000) \div den
               lo  == (((PScale * 10000) % den) * 10) \div den
           IN  hi * 10 + lo

\* logistic_prob that ignores the two ratings.
logistic_prob_Even(ra, rb) == PScale \div 2

\* logistic_prob(ra, rb, scale) = 1 / (1 + 10 ** ((rb - ra) / scale))
logistic_prob(ra, rb) ==
  IF rb >= ra THEN LogisticUpper(rb - ra) ELSE PScale - LogisticUpper(ra - rb)


(***************************************************************************)
(* The input table (pd.read_csv) and its rows.                             *)
(*   DATE, EVENT, BOUT, fighter_*_name, fighter_*_url, winner_label: texts *)
(*   method_multiplier: [fin, v], v tenths when the cell is a finite float *)
(*   idx: the row's position in the file (not a column; kept to state the  *)
(*        order in which rows are processed)                               *)
(***************************************************************************)
NaT == 0

\* pd.to_datetime(errors="coerce") of one cell: a date is written as its day
\* number; anything else (missing, unparseable) is NaT.
RECURSIVE DecimalValue(_)
DecimalValue(s) ==
  IF s = <<>> THEN 0
  ELSE 10 * DecimalValue(SubSeq(s, 1, Len(s) - 1)) + DigitVal(s[Len(s)])

to_datetime(s) ==
  IF s # NaN /\ s # <<>> /\ \A i \in 1..Len(s) : IsDigit(s[i])
  THEN DecimalValue(s)
  ELSE NaT

\* Comparison of one sort key with missing values last (na_position="last").
DateLess(d1, d2) == d1 # NaT /\ (d2 = NaT \/ d1 < d2)

TextKeyLess(s1, s2) == s1 # NaN /\ (s2 = NaN \/ TextLess(s1, s2))

\* RowLess with DATE as the only sort key.
RowLess_DateOnly(r1, r2) == DateLess(r1.DATE, r2.DATE)

\* Row order of sort_values(["DATE", "EVENT", "BOUT"]).
RowLess(r1, r2) ==
  \/ DateLess(r1.DATE, r2.DATE)
  \/ /\ r1.DATE = r2.DATE
     /\ \/ TextKeyLess(r1.EVENT, r2.EVENT)
        \/ /\ r1.EVENT = r2.EVENT
           /\ TextKeyLess(r1.BOUT, r2.BOUT)

\* PeakLess without DATE as the third sort key.
PeakLess_NoDate(r1, r2) ==
  \/ TextLess(r1.fighter_id, r2.fighter_id)
  \/ /\ r1.fighter_id = r2.fighter_id
     /\ r1.post_rating > r2.post_rating

\* Row order of sort_values(by=["fighter_id", "post_rating", "DATE"],
\* ascending=[True, False, True]) in compute_peak.
PeakLess(r1, r2) ==
  \/ TextLess(r1.fighter_id, r2.fighter_id)
  \/ /\ r1.fighter_id = r2.fighter_id
     /\ \/ r1.post_rating > r2.post_rating
        \/ /\ r1.post_rating = r2.post_rating
           /\ DateLess(r1.DATE, r2.DATE)

\* The order of one of the two stable sorts: by = "frame" in run_elo,
\* by = "peak" in compute_peak.
SortLess(by, r1, r2) == IF by = "frame" THEN RowLess(r1, r2) ELSE PeakLess(r1, r2)

\* A stable sort (kind="stable"): each element is inserted after every
\* element that is not greater.
RECURSIVE InsertStable(_, _, _)
InsertStable(by, x, s) ==
  IF s = <<>> THEN <<x>>
  ELSE IF SortLess(by, x, Head(s)) THEN <<x>> \o s
  ELSE <<Head(s)>> \o InsertStable(by, x, Tail(s))

RECURSIVE StableSort(_, _)
StableSort(by, s) ==
  IF s = <<>> THEN <<>>
  ELSE InsertStable(by, s[Len(s)], StableSort(by, SubSeq(s, 1, Len(s) - 1)))

\* df["DATE"] = pd.to_datetime(df["DATE"], errors="coerce")
ParsedFrame(rows) == [j \in 1..Len(rows) |-> [rows[j] EXCEPT !.DATE = to_datetime(@)]]

\* df = df.sort_values(["DATE", "EVENT", "BOUT"], kind="stable")
SortedFrame(rows) == StableSort("frame", ParsedFrame(rows))

(***************************************************************************)
(* elo_update.py: one bout.                                                *)
(***************************************************************************)
\* choose_fighter_id(row, side) -> <<fid, name>>
choose_fighter_id(row, side) ==
  LET name == norm(IF side = "a" THEN row.fighter_a_name ELSE row.fighter_b_name)
      url  == norm(IF side = "a" THEN row.fighter_a_url ELSE row.fighter_b_url)
  IN  <<IF url # <<>> THEN url ELSE key_from_name(name), name>>

NoScores == <<>>

\* outcome_scores scoring every unresolved label as a draw.
outcome_scores_UnresolvedAsDraw(winner_label) ==
  LET w == Lower(Strip(winner_label))
  IN  IF w = <<"a">> THEN <<PScale, 0>>
      ELSE IF w = <<"b">> THEN <<0, PScale>>
      ELSE <<PScale \div 2, PScale \div 2>>

\* outcome_scores(winner_label): <<s_a, s_b>> in 1/PScale, or NoScores (None).
outcome_scores(winner_label) ==
  LET w == Lower(Strip(winner_label))
  IN  IF w = <<"a">> THEN <<PScale, 0>>
      ELSE IF w = <<"b">> THEN <<0, PScale>>
      ELSE IF w = <<"d","r","a","w">> THEN <<PScale \div 2, PScale \div 2>>
      ELSE NoScores

\* scores = outcome_scores(str(row.get("winner_label", "")))
RowScores(row) == outcome_scores(Str(row.winner_label))

\* m = float(row.method_multiplier); 1.0 when unparseable or not finite.
RowMultiplier(row) ==
  IF row.method_multiplier.fin THEN row.method_multiplier.v ELSE MScale

\* Lookup that never finds the stored value.
Lookup_AlwaysDefault(d, k, default) == default

\* d[k] for a defaultdict.
Lookup(d, k, default) == IF k \in DOMAIN d THEN d[k] ELSE default

\* d[k] = v
\* An assignment that keeps the value a key already has.
Put_KeepOld(d, k, v) == IF k \in DOMAIN d THEN d ELSE (k :> v) @@ d

Put(d, k, v) == [x \in DOMAIN d \cup {k} |-> IF x = k THEN v ELSE d[x]]

\* d[k] += 1 for a defaultdict(int).
\* An increment by two.
Incr_ByTwo(d, k) == (k :> (IF k \in DOMAIN d THEN d[k] ELSE 0) + 2) @@ d

Incr(d, k) == Put(d, k, Lookup(d, k, 0) + 1)

\* Reading ratings[fid] inserts fid at the end of the dict when it is new.
Touch(order, fid) ==
  IF \E i \in 1..Len(order) : order[i] = fid THEN order ELSE Append(order, fid)

\* first_date[fid] / last_date[fid] bookkeeping for one fid.
FirstDate(fd, fid, d) ==
  IF fid \notin DOMAIN fd \/ (d # NaT /\ (fd[fid] = NaT \/ d < fd[fid]))
  THEN Put(fd, fid, d) ELSE fd

LastDate(ld, fid, d) ==
  IF fid \notin DOMAIN ld \/ (d # NaT /\ (ld[fid] = NaT \/ d > ld[fid]))
  THEN Put(ld, fid, d) ELSE ld

\* ratings[fid] on first reference.
InitialRating == BaseRating

\* ra_new, rb_new from the pre-bout ratings, the scores and K_eff.
NewRatingA(ra, s_a, p_a, k_eff) == ra + k_eff * (s_a - p_a)

\* NewRatingB computed with A's expectation instead of 1 - p_a.
NewRatingB_ExpectationOfA(rb, s_b, p_a, k_eff) == rb + k_eff * (s_b - p_a)

NewRatingB(rb, s_b, p_a, k_eff) == rb + k_eff * (s_b - (PScale - p_a))

\* EffectiveK without the method multiplier.
EffectiveK_NoMultiplier(m) == K * MScale

\* k_eff = cfg.K * m
EffectiveK(m) == K * m

\* The body of the loop for a row with scores: the store after the bout.
\* st holds the loop's dictionaries and history_rows.
ApplyBout(st, row) ==
  LET scores == RowScores(row)
      a      == choose_fighter_id(row, "a")
      b      == choose_fighter_id(row, "b")
      fid_a  == a[1]
      fid_b  == b[1]
      names1 == Put(Put(st.names, fid_a, IF a[2] # <<>> THEN a[2] ELSE fid_a),
                    fid_b, IF b[2] # <<>> THEN b[2] ELSE fid_b)
      ra     == Lookup(st.ratings, fid_a, InitialRating)
      rb     == Lookup(Put(st.ratings, fid_a, ra), fid_b, InitialRating)
      m      == RowMultiplier(row)
      p_a    == logistic_prob(ra, rb)
      s_a    == scores[1]
      s_b    == scores[2]
      k_eff  == EffectiveK(m)
      ra_new == NewRatingA(ra, s_a, p_a, k_eff)
      rb_new == NewRatingB(rb, s_b, p_a, k_eff)
      d      == row.DATE
  IN  [ ratings   |-> Put(Put(st.ratings, fid_a, ra_new), fid_b, rb_new),
        order     |-> Touch(Touch(st.order, fid_a), fid_b),
        names     |-> names1,
        fights_ct |-> Incr(Incr(st.fights_ct, fid_a), fid_b),
        wins_ct   |-> IF s_a = PScale THEN Incr(st.wins_ct, fid_a)
                      ELSE IF s_b = PScale THEN Incr(st.wins_ct, fid_b)
                      ELSE st.wins_ct,
        losses_ct |-> IF s_a = PScale THEN Incr(st.losses_ct, fid_b)
                      ELSE IF s_b = PScale THEN Incr(st.losses_ct, fid_a)
                      ELSE st.losses_ct,
        draws_ct  |-> IF s_a = PScale \/ s_b = PScale THEN st.draws_ct
                      ELSE Incr(Incr(st.draws_ct, fid_a), fid_b),
        first_date |-> FirstDate(FirstDate(st.first_date, fid_a, d), fid_b, d),
        last_date  |-> LastDate(LastDate(st.last_date, fid_a, d), fid_b, d),
        history_rows |-> Append(st.history_rows,
           [ DATE |-> d, EVENT |-> norm(row.EVENT), BOUT |-> norm(row.BOUT),
             fighter_a_id |-> fid_a, fighter_b_id |-> fid_b,
             fighter_a_name |-> names1[fid_a], fighter_b_name |-> names1[fid_b],
             pre_rating_a |-> ra, pre_rating_b |-> rb, p_A_win |-> p_a,
             winner_label |-> Lower(Strip(Str(row.winner_label))),
             method_multiplier |-> m, K_eff |-> k_eff,
             post_rating_a |-> ra_new, post_rating_b |-> rb_new,
             idx |-> row.idx ]) ]

\* The dictionaries and history_rows before the loop.
EmptyStore ==
  [ ratings |-> <<>>, order |-> <<>>, names |-> <<>>, fights_ct |-> <<>>,
    wins_ct |-> <<>>, losses_ct |-> <<>>, draws_ct |-> <<>>,
    first_date |-> <<>>, last_date |-> <<>>, history_rows |-> <<>> ]

\* The loop over a frame: rows without scores are skipped.
RECURSIVE RunLoop(_, _)
RunLoop(st, rows) ==
  IF rows = <<>> THEN st
  ELSE RunLoop(IF RowScores(Head(rows)) = NoScores THEN st
               ELSE ApplyBout(st, Head(rows)),
               Tail(rows))

(***************************************************************************)
(* elo_update.py: the outputs of run_elo.                                  *)
(***************************************************************************)
\* The value of the column a frame is sorted by.
Column(col, r) == IF col = "rating" THEN r.rating ELSE r.peak_rating

\* sort_values(col, ascending=False) with the default quicksort, which is not
\* stable: the order of rows with equal values is unspecified, so every
\* arrangement of rows in which col does not increase may be returned.
DescendingOrders(rows, col) ==
  { [j \in 1..Len(rows) |-> rows[p[j]]] :
      p \in { q \in Permutations(1..Len(rows)) :
                \A j \in 1..(Len(rows) - 1) :
                   Column(col, rows[q[j]]) >= Column(col, rows[q[j + 1]]) } }

\* rows of the full ratings snapshot, in the order of ratings.items().
SnapshotRows(st) ==
  [ j \in 1..Len(st.order) |->
      LET fid == st.order[j]
      IN  [ fighter_id |-> fid,
            fighter_name |-> Lookup(st.names, fid, fid),
            rating |-> st.ratings[fid],
            fights |-> Lookup(st.fights_ct, fid, 0),
            wins |-> Lookup(st.wins_ct, fid, 0),
            losses |-> Lookup(st.losses_ct, fid, 0),
            draws |-> Lookup(st.draws_ct, fid, 0),
            first_date |-> Lookup(st.first_date, fid, NaT),
            last_date |-> Lookup(st.last_date, fid, NaT) ] ]

\* RatingFrames without the sort.
RatingFrames_Unsorted(st) == { SnapshotRows(st) }

\* rat_df = pd.DataFrame(rows).sort_values("rating", ascending=False)
RatingFrames(st) == DescendingOrders(SnapshotRows(st), "rating")

\* simple_df = rat_df[["fighter_name", "rating"]]
SimpleFrame(rat_df) ==
  [ j \in 1..Len(rat_df) |->
      [ fighter_name |-> rat_df[j].fighter_name, rating |-> rat_df[j].rating ] ]

(***************************************************************************)
(* compute_peak_elo.py                                                     *)
(***************************************************************************)
\* One side of the history as rows of the long table.
LongSide(hist, side) ==
  [ j \in 1..Len(hist) |->
      LET id == norm(IF side = "a" THEN hist[j].fighter_a_id ELSE hist[j].fighter_b_id)
          nm == norm(IF side = "a" THEN hist[j].fighter_a_name ELSE hist[j].fighter_b_name)
      IN  [ DATE |-> hist[j].DATE, EVENT |-> hist[j].EVENT, BOUT |-> hist[j].BOUT,
            fighter_id |-> id,
            fighter_name |-> IF nm = <<>> THEN id ELSE nm,
            pre_rating |-> IF side = "a" THEN hist[j].pre_rating_a
                           ELSE hist[j].pre_rating_b,
            post_rating |-> IF side = "a" THEN hist[j].post_rating_a
                            ELSE hist[j].post_rating_b ] ]

\* build_long_from_history(hist): the A sides, then the B sides.
build_long_from_history(hist) == LongSide(hist, "a") \o LongSide(hist, "b")

\* drop_duplicates(subset=["fighter_id"], keep="first")
RECURSIVE DropDuplicates(_, _)
DropDuplicates(rows, seen) ==
  IF rows = <<>> THEN <<>>
  ELSE IF Head(rows).fighter_id \in seen THEN DropDuplicates(Tail(rows), seen)
  ELSE <<Head(rows)>> \o DropDuplicates(Tail(rows), seen \cup {Head(rows).fighter_id})

\* PeakRows with the display name of the competitor's last row of the long
\* table instead of the name of the peak row.
PeakRows_LatestName(long_df) ==
  LET sort_df == StableSort("peak", long_df)
      first   == DropDuplicates(sort_df, {})
      latest(fid) ==
        long_df[CHOOSE n \in 1..Len(long_df) :
                  /\ long_df[n].fighter_id = fid
                  /\ \A o \in (n + 1)..Len(long_df) : long_df[o].fighter_id # fid]
  IN  [ j \in 1..Len(first) |->
          [ fighter_id |-> first[j].fighter_id,
            fighter_name |-> latest(first[j].fighter_id).fighter_name,
            peak_rating |-> first[j].post_rating,
            peak_date |-> first[j].DATE,
            peak_event |-> first[j].EVENT,
            peak_bout |-> first[j].BOUT ] ]

\* The peak rows before the final sort.
PeakRows(long_df) ==
  LET sort_df == StableSort("peak", long_df)
      first   == DropDuplicates(sort_df, {})
  IN  [ j \in 1..Len(first) |->
          [ fighter_id |-> first[j].fighter_id,
            fighter_name |-> first[j].fighter_name,
            peak_rating |-> first[j].post_rating,
            peak_date |-> first[j].DATE,
            peak_event |-> first[j].EVENT,
            peak_bout |-> first[j].BOUT ] ]

\* compute_peak(long_df): the frames the final sort_values("peak_rating",
\* ascending=False) may return.
compute_peak(long_df) == DescendingOrders(PeakRows(long_df), "peak_rating")

(***************************************************************************)
(* classify_methods.py                                                     *)
(***************************************************************************)
\* The en dash (U+2013), the second separator SCORE_RE accepts.
EnDash == "en-dash"

\* The outcome labels classify_row tests for.
L_draw == <<"d","r","a","w">>
L_nc == <<"n","c">>

FINISH_TOKENS ==
  << <<"k","o">>, <<"t","k","o">>, <<"s","u","b","m","i","s","s","i","o","n">>,
     <<"s","u","b">>, <<"d","q">>,
     <<"d","i","s","q","u","a","l","i","f","i","c","a","t","i","o","n">>,
     <<"d","o","c","t","o","r"," ","s","t","o","p","p","a","g","e">>,
     <<"r","e","t","i","r","e","m","e","n","t">> >>

normalize_text(s) == IF s = NaN THEN <<>> ELSE CollapseSpaces(Strip(s))

\* The position after the run of digits that starts at p.
RECURSIVE DigitRunEnd(_, _)
DigitRunEnd(s, p) ==
  IF p <= Len(s) /\ IsDigit(s[p]) THEN DigitRunEnd(s, p + 1) ELSE p

\* The position after the run of whitespace that starts at p.
RECURSIVE SpaceRunEnd(_, _)
SpaceRunEnd(s, p) ==
  IF p <= Len(s) /\ IsSpace(s[p]) THEN SpaceRunEnd(s, p + 1) ELSE p

\* re.search(r"(\d+)\s*Rnd", s) from position p: the number captured by the
\* leftmost match, 0 when there is no match.
RECURSIVE RoundsSearch(_, _)
RoundsSearch(s, p) ==
  IF p > Len(s) THEN 0
  ELSE IF ~IsDigit(s[p]) THEN RoundsSearch(s, p + 1)
  ELSE LET q == DigitRunEnd(s, p)
           d == SpaceRunEnd(s, q)
       IN IF d + 2 <= Len(s) /\ SubSeq(s, d, d + 2) = <<"R","n","d">>
          THEN DecimalValue(SubSeq(s, p, q - 1))
          ELSE RoundsSearch(s, q)

scheduled_rounds_from_timefmt(timefmt) ==
  IF timefmt = NaN THEN 3
  ELSE IF \E p \in 1..Len(timefmt) :
            /\ IsDigit(timefmt[p])
            /\ LET d == SpaceRunEnd(timefmt, DigitRunEnd(timefmt, p))
               IN d + 2 <= Len(timefmt) /\ SubSeq(timefmt, d, d + 2) = <<"R","n","d">>
       THEN RoundsSearch(timefmt, 1)
       ELSE 3

\* SCORE_RE.findall(s) from position p: the pairs of digit runs separated by
\* a hyphen or an en dash with optional whitespace around it, left to right
\* and without overlap.
\* SCORE_RE.search in place of findall: the first pair only.
RECURSIVE ScoreFindAll_FirstOnly(_, _)
ScoreFindAll_FirstOnly(s, p) ==
  IF p > Len(s) THEN <<>>
  ELSE IF ~IsDigit(s[p]) THEN ScoreFindAll_FirstOnly(s, p + 1)
  ELSE LET q == DigitRunEnd(s, p)
           d == SpaceRunEnd(s, q)
           r == IF d <= Len(s) /\ s[d] \in {"-", EnDash}
                THEN SpaceRunEnd(s, d + 1) ELSE 0
           t == IF r > 0 THEN DigitRunEnd(s, r) ELSE 0
       IN IF r > 0 /\ t > r
          THEN << <<SubSeq(s, p, q - 1), SubSeq(s, r, t - 1)>> >>
          ELSE ScoreFindAll_FirstOnly(s, q)

RECURSIVE ScoreFindAll(_, _)
ScoreFindAll(s, p) ==
  IF p > Len(s) THEN <<>>
  ELSE IF ~IsDigit(s[p]) THEN ScoreFindAll(s, p + 1)
  ELSE LET q == DigitRunEnd(s, p)
           d == SpaceRunEnd(s, q)
           r == IF d <= Len(s) /\ s[d] \in {"-", EnDash}
                THEN SpaceRunEnd(s, d + 1) ELSE 0
           t == IF r > 0 THEN DigitRunEnd(s, r) ELSE 0
       IN IF r > 0 /\ t > r
          THEN << <<SubSeq(s, p, q - 1), SubSeq(s, r, t - 1)>> >> \o ScoreFindAll(s, t)
          ELSE ScoreFindAll(s, q)

Abs(n) == IF n < 0 THEN -n ELSE n

\* str.replace(",", " ")
ReplaceCommas(s) == [j \in 1..Len(s) |-> IF s[j] = "," THEN " " ELSE s[j]]

\* parse_scorecard_margins giving one margin of zero when nothing parses.
parse_scorecard_margins_ZeroWhenNone(details_text) ==
  IF details_text = NaN \/ Strip(Str(details_text)) = <<>> THEN <<0>>
  ELSE LET pairs == ScoreFindAll(ReplaceCommas(details_text), 1)
       IN IF pairs = <<>> THEN <<0>>
          ELSE [j \in 1..Len(pairs) |->
                  Abs(DecimalValue(pairs[j][1]) - DecimalValue(pairs[j][2]))]

parse_scorecard_margins(details_text) ==
  IF details_text = NaN \/ Strip(Str(details_text)) = <<>> THEN <<>>
  ELSE LET pairs == ScoreFindAll(ReplaceCommas(details_text), 1)
       IN [j \in 1..Len(pairs) |->
             Abs(DecimalValue(pairs[j][1]) - DecimalValue(pairs[j][2]))]

method_is_finish(method) ==
  LET m == Lower(normalize_text(method))
  IN \E j \in 1..Len(FINISH_TOKENS) : Contains(m, FINISH_TOKENS[j])

\* method_is_decision finding no decision in any text.
method_is_decision_Never(method) == FALSE

method_is_decision(method) ==
  Contains(Lower(normalize_text(method)), <<"d","e","c","i","s","i","o","n">>)

\* method_decision_type without the split and majority keywords.
method_decision_type_NoSplit(method) ==
  IF Contains(Lower(normalize_text(method)), <<"u","n","a","n","i","m","o","u","s">>)
  THEN "unanimous"
  ELSE "decision"

method_decision_type(method) ==
  LET m == Lower(normalize_text(method))
  IN IF Contains(m, <<"s","p","l","i","t">>) THEN "split"
     ELSE IF Contains(m, <<"m","a","j","o","r","i","t","y">>) THEN "majority"
     ELSE IF Contains(m, <<"u","n","a","n","i","m","o","u","s">>)
          THEN "unanimous"
     ELSE "decision"

\* str(n) of a natural number.
RECURSIVE IntText(_)
IntText(n) == IF n < 10 THEN <<Digits[n + 1]>> ELSE IntText(n \div 10) \o <<Digits[(n % 10) + 1]>>

\* ",".join(str(x) for x in margins)
RECURSIVE JoinMargins(_)
JoinMargins(margins) ==
  IF margins = <<>> THEN <<>>
  ELSE IF Len(margins) = 1 THEN IntText(margins[1])
  ELSE IntText(margins[1]) \o <<",">> \o JoinMargins(Tail(margins))

\* The tuple classify_row returns.
Classified(cls, mult, basis, margins_str) ==
  [ method_class |-> cls, method_multiplier |-> mult,
    decision_basis |-> basis, judge_margins |-> margins_str ]

\* classify_row after the outcome label: the rules on the method text and
\* the scorecards.
classify_method(method, details, m_finish, m_dom, m_dec) ==
  IF method_is_finish(method) /\ ~method_is_decision(method)
  THEN Classified("finish", m_finish, "method_finish", <<>>)
  ELSE IF method_is_decision(method)
  THEN LET d_type == method_decision_type(method)
           margins == parse_scorecard_margins(details)
           margins_str == JoinMargins(margins)
       IN IF d_type \in {"split", "majority"}
          THEN Classified("decision_normal", m_dec,
                          IF d_type = "split" THEN "method_split" ELSE "method_majority",
                          <<>>)
          ELSE IF margins # <<>>
          THEN IF \E j \in 1..Len(margins) : margins[j] >= 3
               THEN Classified("decision_dominant", m_dom, "details_any_margin_ge_3",
                               margins_str)
               ELSE IF Cardinality({j \in 1..Len(margins) : margins[j] >= 2}) >= 2
               THEN Classified("decision_dominant", m_dom, "details_two_cards_ge_2",
                               margins_str)
               ELSE Classified("decision_normal", m_dec, "details_small_margins",
                               margins_str)
          ELSE IF d_type = "unanimous"
          THEN Classified("decision_dominant", m_dom, "method_unanimous_no_details", <<>>)
          ELSE Classified("decision_normal", m_dec, "method_generic_decision", <<>>)
  ELSE IF \E j \in 1..Len(FINISH_TOKENS) : Contains(Lower(method), FINISH_TOKENS[j])
  THEN Classified("finish", m_finish, "method_finish_fallback", <<>>)
  ELSE Classified("other", m_dec, "unknown_method", <<>>)

\* classify_row with the rules on the method text tried before the outcome
\* label.
classify_row_MethodFirst(row, m_finish, m_dom, m_dec) ==
  LET outcome == normalize_text(row.winner_label)
      byMethod == classify_method(normalize_text(row.METHOD),
                                  normalize_text(row.DETAILS), m_finish, m_dom, m_dec)
  IN IF byMethod.method_class # "other" THEN byMethod
     ELSE IF Lower(outcome) = L_draw
          THEN Classified("draw", m_dec, "outcome_draw", <<>>)
     ELSE IF Lower(outcome) = L_nc
          THEN Classified("nc", m_dec, "outcome_nc", <<>>)
     ELSE byMethod

classify_row(row, m_finish, m_dom, m_dec) ==
  LET outcome == normalize_text(row.winner_label)
      method == normalize_text(row.METHOD)
      details == normalize_text(row.DETAILS)
      timefmt == normalize_text(row.TIME_FORMAT)
      rounds_scheduled ==
        IF ~row.rounds_scheduled.fin
        THEN scheduled_rounds_from_timefmt(timefmt)
        ELSE row.rounds_scheduled.v
  IN IF Lower(outcome) = L_draw
     THEN Classified("draw", m_dec, "outcome_draw", <<>>)
     ELSE IF Lower(outcome) = L_nc
     THEN Classified("nc", m_dec, "outcome_nc", <<>>)
     ELSE classify_method(method, details, m_finish, m_dom, m_dec)

\* The defaults of --m-finish, --m-dom and --m-dec, in tenths.
DefaultArgs == [m_finish |-> 12, m_dom |-> 11, m_dec |-> 10]

(***************************************************************************)
(* Inputs of the model.                                                    *)
(***************************************************************************)
T_Al == <<"A","l">>
T_AL == <<"A","L">>
T_Bo == <<"B","o">>
T_Cy == <<"C","y">>
T_Cyd == <<"C","y","d">>
T_Url == <<"/","c">>

Side(name, url) == [name |-> name, url |-> url]

Al == Side(T_Al, NaN)
AlUpper == Side(T_AL, NaN)
Bo == Side(T_Bo, NaN)
Cy == Side(T_Cy, T_Url)
Cyd == Side(T_Cyd, T_Url)
Nameless == Side(NaN, NaN)

Finite(v) == [fin |-> TRUE, v |-> v]
NotFinite == [fin |-> FALSE, v |-> 0]

Row(date, event, bout, a, b, label, mult) ==
  [ DATE |-> date, EVENT |-> event, BOUT |-> bout,
    fighter_a_name |-> a.name, fighter_a_url |-> a.url,
    fighter_b_name |-> b.name, fighter_b_url |-> b.url,
    winner_label |-> label, method_multiplier |-> mult, idx |-> 0 ]

L_a == <<"a">>
L_b == <<"b">>

\* Bouts of one day and one event, to exercise the rating update: two
\* competitors in both orders and with two multipliers, a third competitor,
\* and a bout whose two names give the same key.
EngineRows ==
  { Row(<<"1">>, <<"E">>, <<"x">>, p[1], p[2], l, m) :
      p \in { <<Al, Bo>>, <<Bo, Al>> }, l \in { L_a, L_b, L_draw },
      m \in { Finite(10), Finite(12) } }
  \cup
  { Row(<<"1">>, <<"E">>, <<"x">>, Bo, Cy, l, Finite(12)) : l \in { L_a, L_b, L_draw } }
  \cup
  { Row(<<"1">>, <<"E">>, <<"x">>, Al, AlUpper, l, Finite(10)) : l \in { L_a, L_b, L_draw } }

\* Outcome labels as they may be written, resolved or not.
LabelRows ==
  { Row(<<"1">>, <<"E">>, <<"x">>, Al, Bo, l, m) :
      l \in { L_a, <<" ","B"," ">>, <<"D","R","A","W">>, L_nc, <<"N","C">>,
              <<"u","n","k","n","o","w","n">>, <<>>, NaN, <<"a","b">> },
      m \in { Finite(12), NotFinite } }

\* Dates, events and bout labels, to exercise the order of processing.
OrderRows ==
  { Row(d, e[1], e[2], Al, Bo, l, Finite(10)) :
      d \in { <<"1">>, <<"2">>, NaN },
      e \in { <<<<"E">>, <<"x">>>>, <<<<"E">>, <<"y">>>>, <<<<"F"," ">>, <<"x">>>> },
      l \in { L_a, L_b } }
  \cup
  { Row(d, <<"E">>, <<"x">>, Al, Bo, l, Finite(10)) :
      d \in { <<"x">>, <<"2">> }, l \in { L_a, L_nc } }

\* Competitors whose name and side change between bouts, on several days;
\* a competitor keyed by URL, and one with no name at all.
NameRows ==
  { Row(d, <<"E">>, <<"x">>, p[1], p[2], l, Finite(11)) :
      d \in { <<"1">>, <<"2">>, NaN },
      p \in { <<Al, Bo>>, <<Bo, AlUpper>> },
      l \in { L_a, L_b, L_draw } }
  \cup
  { Row(d, <<"E">>, <<"x">>, p[1], p[2], L_a, Finite(11)) :
      d \in { <<"1">>, <<"2">> },
      p \in { <<Cy, Nameless>>, <<Nameless, Cyd>> } }

\* Outcome labels given to the classifier: the four labels, the draw label
\* in other letter cases and with surrounding whitespace, a longer word that
\* starts with it, and a missing cell.
ClassifierLabels ==
  { L_a, L_b, L_draw, L_nc, NaN,
    <<"D","r","a","w">>, <<"D","R","A","W">>,
    <<" ","D","r","a","w","\t">>,
    <<"d","r","a","w","n">> }

ClassifierMethods ==
  { NaN,
    <<"K","O","/","T","K","O">>,
    <<"S","u","b","m","i","s","s","i","o","n">>,
    <<"D","e","c","i","s","i","o","n">>,
    <<"D","e","c","i","s","i","o","n"," ","-"," ","U","n","a","n","i","m","o","u","s">>,
    <<"D","e","c","i","s","i","o","n"," ","-"," ","S","p","l","i","t">>,
    <<"D","e","c","i","s","i","o","n"," ","-"," ","M","a","j","o","r","i","t","y">>,
    <<"O","v","e","r","t","u","r","n","e","d">>,
    <<"S","p","l","i","t"," ","D","e","c","i","s","i","o","n">>,
    <<"M","a","j","o","r","i","t","y"," ","D","e","c","i","s","i","o","n">>,
    <<"D","o","c","t","o","r"," ","S","t","o","p","p","a","g","e"," ","-"," ","T","e","c","h","n","i","c","a","l"," ","D","e","c","i","s","i","o","n">> }

\* Scorecard texts: none, margins 1,3,1; 1,1,1; 2,2,1; one card 3 written
\* with an en dash; a text without scores, a blank text, half a score.
ClassifierDetails ==
  { NaN,
    <<"4","7"," ","-"," ","4","8",",","4","9"," ","-"," ","4","6",",","4","7"," ","-"," ","4","8">>,
    <<"4","8"," ","-"," ","4","7",",","4","8"," ","-"," ","4","7",",","4","8"," ","-"," ","4","7">>,
    <<"A","l"," ","3","0"," ","-"," ","2","8",".","B","o"," ","3","0"," ","-"," ","2","8",".","C","y"," ","2","9","-","2","8",".">>,
    <<"3","0",EnDash,"2","7">>,
    <<"n","o"," ","c","a","r","d","s">>,
    <<" ">>,
    <<"4","7"," ","-">> }

ClassifierTimeFormats ==
  { NaN,
    <<"3"," ","R","n","d"," ","(","5","-","5","-","5",")">>,
    <<"5"," ","R","n","d"," ","(","5","-","5","-","5","-","5","-","5",")">>,
    <<"N","o"," ","T","i","m","e"," ","L","i","m","i","t">> }

\* rounds_scheduled: [fin, v], v the number when the cell holds one.
ClassifierRounds == { NotFinite, Finite(3), Finite(5) }

ClassifierArgs == { DefaultArgs, [m_finish |-> 15, m_dom |-> 12, m_dec |-> 9] }

ClassifierRow(label, method, details, timefmt, rounds) ==
  [ winner_label |-> label, METHOD |-> method, DETAILS |-> details,
    TIME_FORMAT |-> timefmt, rounds_scheduled |-> rounds ]

RowFamilies == { EngineRows, LabelRows, OrderRows, NameRows }

\* A table of rows: idx is set to the position in the file.
Table(t) == [ j \in 1..Len(t) |-> [ t[j] EXCEPT !.idx = j ] ]

(***************************************************************************)
(* State.                                                                  *)
(***************************************************************************)
VARIABLES
  input_csv,     \* the rows of the input file
  pc,            \* where the pipeline is
  df,            \* run_elo: the sorted frame
  i,             \* run_elo: the position of the loop in df
  ratings, order, names, fights_ct, wins_ct, losses_ct, draws_ct,
  first_date, last_date, history_rows,
  out_hist, out_ratings, out_ratings_simple,   \* the files run_elo writes
  peak_out,      \* the file compute_peak_elo.py writes
  cls_row,       \* classify_methods.py: the row given to classify_row
  cls_args,      \* classify_methods.py: --m-finish, --m-dom, --m-dec
  cls_out,       \* classify_methods.py: what classify_row returned
  columns,       \* run_elo: the columns of the input file
  exit_code,     \* run_elo: <<>> while it runs, then <<its exit status>>
  stderr,        \* run_elo: what it printed on the error stream
  cli            \* ufcelo_cli.py run-all: arguments, position, stages started

store_vars == <<ratings, order, names, fights_ct, wins_ct, losses_ct, draws_ct,
                first_date, last_date, history_rows>>

file_vars == <<out_hist, out_ratings, out_ratings_simple, peak_out>>

cls_vars == <<cls_row, cls_args, cls_out>>

io_vars == <<columns, exit_code, stderr>>

vars == <<input_csv, pc, df, i, store_vars, file_vars, cls_vars, io_vars, cli>>

\* The loop's dictionaries as one record.
Store ==
  [ ratings |-> ratings, order |-> order, names |-> names, fights_ct |-> fights_ct,
    wins_ct |-> wins_ct, losses_ct |-> losses_ct, draws_ct |-> draws_ct,
    first_date |-> first_date, last_date |-> last_date,
    history_rows |-> history_rows ]

SetStore(st) ==
  /\ ratings' = st.ratings
  /\ order' = st.order
  /\ names' = st.names
  /\ fights_ct' = st.fights_ct
  /\ wins_ct' = st.wins_ct
  /\ losses_ct' = st.losses_ct
  /\ draws_ct' = st.draws_ct
  /\ first_date' = st.first_date
  /\ last_date' = st.last_date
  /\ history_rows' = st.history_rows

NotWritten == [written |-> FALSE, rows |-> <<>>]

Written(rows) == [written |-> TRUE, rows |-> rows]

(***************************************************************************)
(* elo_calculator/ufcelo_cli.py: run-all.                                  *)
(*   An argument that was not given (None) is the empty string; a dict is  *)
(*   a function from keys to values; a path is <<directory, file name>>.   *)
(***************************************************************************)
\* The run-all command is not running.
NoCli == <<>>

\* a or b
Or(a, b) == IF a # "" THEN a ELSE b

\* d.get(k, default)
Get(d, k, default) == IF k \in DOMAIN d THEN d[k] ELSE default

\* An empty dict.
EmptyDict == [k \in {} |-> ""]

\* The four stages in the order of cmd_run_all.
Stages == <<"prepare", "classify", "elo", "peak">>

\* cmd_run_all: the events and results paths, from the flags or the config.
ResolveData(args, cfg) ==
  [ events |-> Or(args.events, Get(cfg.data, "events", "")),
    results |-> Or(args.results, Get(cfg.data, "results", "")) ]

\* cmd_run_all: the paths of the build files.
BuildPaths(cfg) ==
  LET build_dir == Get(cfg.build, "dir", "../build")
  IN  [ unified |-> <<build_dir, Get(cfg.build, "unified", "fights_unified.csv")>>,
        classified |-> <<build_dir, Get(cfg.build, "classified", "fights_classified.csv")>>,
        elo_history |-> <<build_dir, Get(cfg.build, "elo_history", "elo_history.csv")>>,
        elo_ratings |-> <<build_dir, Get(cfg.build, "elo_ratings", "elo_ratings_current.csv")>>,
        elo_ratings_simple |->
          <<build_dir, Get(cfg.build, "elo_ratings_simple", "elo_ratings_simple.csv")>>,
        peak |-> <<build_dir, Get(cfg.build, "peak", "elo_peak_ratings.csv")>>,
        peak_simple |->
          <<build_dir, Get(cfg.build, "peak_simple", "elo_peak_ratings_simple.csv")>> ]

\* The command line of a stage: the script, the files it is told to read and
\* the files it is told to write.
StageCommand(stage, data, paths) ==
  IF stage = "prepare"
  THEN [ script |-> "load_and_prepare.py",
         reads |-> { <<"", data.events>>, <<"", data.results>> },
         writes |-> { paths.unified } ]
  ELSE IF stage = "classify"
  THEN [ script |-> "classify_methods.py",
         reads |-> { paths.unified },
         writes |-> { paths.classified } ]
  ELSE IF stage = "elo"
  THEN [ script |-> "elo_update.py",
         reads |-> { paths.classified },
         writes |-> { paths.elo_history, paths.elo_ratings, paths.elo_ratings_simple } ]
  ELSE [ script |-> "compute_peak_elo.py",
         reads |-> { paths.elo_history },
         writes |-> { paths.peak, paths.peak_simple } ]

\* run_cmd that returns whatever the return code is.
run_cmd_Unchecked(returncode, check) == [ exits |-> FALSE, code |-> returncode ]

\* run_cmd after subprocess.run: with check and a return code other than 0
\* the CLI exits with that code, else the code is returned.
run_cmd(returncode, check) ==
  IF check /\ returncode # 0
  THEN [ exits |-> TRUE, code |-> returncode ]
  ELSE [ exits |-> FALSE, code |-> returncode ]

\* The columns run_elo requires, in the order of its list.
req ==
  << "DATE", "EVENT", "BOUT", "fighter_a_name", "fighter_b_name",
     "winner_label", "method_class", "method_multiplier" >>

\* The columns of a well-formed input: the required ones and the two
\* optional id columns.
AllColumns == { req[j] : j \in 1..Len(req) } \cup { "fighter_a_url", "fighter_b_url" }

\* A check that finds no column missing.
MissingColumns_None(cols) == <<>>

\* missing = [c for c in req if c not in df.columns]
MissingColumns(cols) == SelectSeq(req, LAMBDA c : c \notin cols)

\* No row is being classified; nothing has been classified.
NoRow == <<>>
NotClassified == <<>>

Init ==
  /\ \E family \in RowFamilies : \E n \in 0..MaxRows : \E t \in [1..n -> family] :
        input_csv = Table(t)
  /\ pc = "start"
  /\ df = <<>>
  /\ i = 0
  /\ ratings = EmptyStore.ratings
  /\ order = EmptyStore.order
  /\ names = EmptyStore.names
  /\ fights_ct = EmptyStore.fights_ct
  /\ wins_ct = EmptyStore.wins_ct
  /\ losses_ct = EmptyStore.losses_ct
  /\ draws_ct = EmptyStore.draws_ct
  /\ first_date = EmptyStore.first_date
  /\ last_date = EmptyStore.last_date
  /\ history_rows = EmptyStore.history_rows
  /\ out_hist = NotWritten
  /\ out_ratings = NotWritten
  /\ out_ratings_simple = NotWritten
  /\ peak_out = NotWritten
  /\ cls_row = NoRow
  /\ cls_args = DefaultArgs
  /\ cls_out = NotClassified
  /\ columns = AllColumns
  /\ exit_code = <<>>
  /\ stderr = <<>>
  /\ cli = NoCli

\* run_elo up to the loop: read, parse the dates, sort, empty dictionaries.
ReadAndSort ==
  /\ pc = "start"
  /\ MissingColumns(columns) = <<>>
  /\ df' = SortedFrame(input_csv)
  /\ i' = 1
  /\ pc' = "loop"
  /\ UNCHANGED <<input_csv, cli, cls_vars, io_vars, store_vars, file_vars>>

\* One iteration for a row without scores: continue.
SkipRow ==
  /\ pc = "loop"
  /\ i <= Len(df)
  /\ RowScores(df[i]) = NoScores
  /\ i' = i + 1
  /\ UNCHANGED <<input_csv, cli, cls_vars, io_vars, pc, df, store_vars, file_vars>>

\* One iteration for a row with scores.
UpdateRow ==
  /\ pc = "loop"
  /\ i <= Len(df)
  /\ RowScores(df[i]) # NoScores
  /\ SetStore(ApplyBout(Store, df[i]))
  /\ i' = i + 1
  /\ UNCHANGED <<input_csv, cli, cls_vars, io_vars, pc, df, file_vars>>

\* After the loop: the history, the snapshot and the simple export are written.
WriteOutputs ==
  /\ pc = "loop"
  /\ i > Len(df)
  /\ order # <<>>
  /\ out_hist' = Written(history_rows)
  /\ \E rat_df \in RatingFrames(Store) :
        /\ out_ratings' = Written(rat_df)
        /\ out_ratings_simple' = Written(SimpleFrame(rat_df))
  /\ pc' = "elo_done"
  /\ exit_code' = <<0>>
  /\ UNCHANGED <<input_csv, cli, cls_vars, columns, stderr, df, i, store_vars, peak_out>>

\* After the loop with no bout processed: the history is written, then
\* pd.DataFrame([]).sort_values("rating") raises KeyError and the run ends.
WriteOutputsEmpty ==
  /\ pc = "loop"
  /\ i > Len(df)
  /\ order = <<>>
  /\ out_hist' = Written(history_rows)
  /\ pc' = "elo_failed"
  /\ exit_code' = <<1>>
  /\ stderr' = Append(stderr, [error |-> "KeyError", columns |-> <<"rating">>])
  /\ UNCHANGED <<input_csv, cli, cls_vars, columns, df, i, store_vars, out_ratings,
                 out_ratings_simple, peak_out>>

\* compute_peak_elo.py main on the history run_elo wrote.
ComputePeak ==
  /\ pc = "elo_done"
  /\ \E peak_df \in compute_peak(build_long_from_history(out_hist.rows)) :
        peak_out' = Written(peak_df)
  /\ pc' = "peak_done"
  /\ UNCHANGED <<input_csv, cli, cls_vars, io_vars, df, i, store_vars, out_hist, out_ratings,
                 out_ratings_simple>>

Next ==
  \/ ReadAndSort
  \/ SkipRow
  \/ UpdateRow
  \/ WriteOutputs
  \/ WriteOutputsEmpty
  \/ ComputePeak

Spec == Init /\ [][Next]_vars

(***************************************************************************)
(* run_elo on an input of any shape: columns may be missing, and the       *)
(* output files may exist from an earlier run.                             *)
(***************************************************************************)
\* The column sets of the inputs: complete, one required column missing, two
\* required columns missing.
ColumnSets ==
  { AllColumns }
    \cup { AllColumns \ {req[j]} : j \in 1..Len(req) }
    \cup { AllColumns \ {"winner_label", "method_multiplier"} }

\* An output file left by an earlier run.
Stale == Written(<<>>)

InitShape ==
  /\ \E n \in 0..MaxRows : \E t \in [1..n -> LabelRows] : input_csv = Table(t)
  /\ columns \in ColumnSets
  /\ \E old \in {NotWritten, Stale} :
        /\ out_hist = old
        /\ out_ratings = old
        /\ out_ratings_simple = old
  /\ peak_out = NotWritten
  /\ pc = "start"
  /\ df = <<>>
  /\ i = 0
  /\ ratings = EmptyStore.ratings
  /\ order = EmptyStore.order
  /\ names = EmptyStore.names
  /\ fights_ct = EmptyStore.fights_ct
  /\ wins_ct = EmptyStore.wins_ct
  /\ losses_ct = EmptyStore.losses_ct
  /\ draws_ct = EmptyStore.draws_ct
  /\ first_date = EmptyStore.first_date
  /\ last_date = EmptyStore.last_date
  /\ history_rows = EmptyStore.history_rows
  /\ cls_row = NoRow
  /\ cls_args = DefaultArgs
  /\ cls_out = NotClassified
  /\ exit_code = <<>>
  /\ stderr = <<>>
  /\ cli = NoCli

\* run_elo on an input that lacks required columns: the list of missing
\* columns is printed and the process exits with status 1.
RejectInput ==
  /\ pc = "start"
  /\ MissingColumns(columns) # <<>>
  /\ stderr' = Append(stderr, [error |-> "Input missing required columns",
                               columns |-> MissingColumns(columns)])
  /\ exit_code' = <<1>>
  /\ pc' = "elo_exit"
  /\ UNCHANGED <<input_csv, cli, cls_vars, columns, df, i, store_vars, file_vars>>

NextShape ==
  \/ RejectInput
  \/ ReadAndSort
  \/ SkipRow
  \/ UpdateRow
  \/ WriteOutputs
  \/ WriteOutputsEmpty
  \/ ComputePeak

SpecShape == InitShape /\ [][NextShape]_vars

(***************************************************************************)
(* classify_methods.py: the classification of one row.                     *)
(***************************************************************************)
InitClassify ==
  /\ \E label \in ClassifierLabels, method \in ClassifierMethods,
        details \in ClassifierDetails, timefmt \in ClassifierTimeFormats,
        rounds \in ClassifierRounds :
        cls_row = ClassifierRow(label, method, details, timefmt, rounds)
  /\ cls_args \in ClassifierArgs
  /\ cls_out = NotClassified
  /\ pc = "classify"
  /\ columns = AllColumns
  /\ exit_code = <<>>
  /\ stderr = <<>>
  /\ cli = NoCli
  /\ input_csv = <<>>
  /\ df = <<>>
  /\ i = 0
  /\ ratings = EmptyStore.ratings
  /\ order = EmptyStore.order
  /\ names = EmptyStore.names
  /\ fights_ct = EmptyStore.fights_ct
  /\ wins_ct = EmptyStore.wins_ct
  /\ losses_ct = EmptyStore.losses_ct
  /\ draws_ct = EmptyStore.draws_ct
  /\ first_date = EmptyStore.first_date
  /\ last_date = EmptyStore.last_date
  /\ history_rows = EmptyStore.history_rows
  /\ out_hist = NotWritten
  /\ out_ratings = NotWritten
  /\ out_ratings_simple = NotWritten
  /\ peak_out = NotWritten

\* main's loop body: classify_row on the row with the configured multipliers.
ClassifyRow ==
  /\ pc = "classify"
  /\ cls_out' = classify_row(cls_row, cls_args.m_finish, cls_args.m_dom, cls_args.m_dec)
  /\ pc' = "classified"
  /\ UNCHANGED <<input_csv, cli, df, i, store_vars, file_vars, cls_row, cls_args, io_vars>>

NextClassify == ClassifyRow

SpecClassify == InitClassify /\ [][NextClassify]_vars

(***************************************************************************)
(* ufcelo_cli.py: the run-all command.  A stage is a child process; what   *)
(* it returns is its own affair and any return code may come back.         *)
(***************************************************************************)
\* The flags --events and --results: given or not.
CliArgs ==
  [ events : {"", "events.csv"}, results : {"", "results.csv"} ]

\* What load_config returns: nothing, the data paths, the events path only,
\* the names of the build files.
CliConfigs ==
  { [ data |-> EmptyDict, build |-> EmptyDict ],
    [ data |-> ("events" :> "cfg_events.csv") @@ ("results" :> "cfg_results.csv"),
      build |-> EmptyDict ],
    [ data |-> ("events" :> "cfg_events.csv"), build |-> EmptyDict ],
    [ data |-> EmptyDict,
      build |-> ("dir" :> "out") @@ ("unified" :> "u.csv") @@ ("elo_history" :> "h.csv") ] }

\* The return codes of a child process.
ReturnCodes == {0, 1, 2}

InitCli ==
  /\ \E args \in CliArgs, cfg \in CliConfigs :
        cli = [ pc |-> "start", args |-> args, cfg |-> cfg,
                data |-> ResolveData(args, cfg), paths |-> BuildPaths(cfg),
                next |-> 1, running |-> FALSE,
                started |-> <<>>, codes |-> <<>>, exit |-> <<>> ]
  /\ pc = "cli"
  /\ input_csv = <<>>
  /\ df = <<>>
  /\ i = 0
  /\ ratings = EmptyStore.ratings
  /\ order = EmptyStore.order
  /\ names = EmptyStore.names
  /\ fights_ct = EmptyStore.fights_ct
  /\ wins_ct = EmptyStore.wins_ct
  /\ losses_ct = EmptyStore.losses_ct
  /\ draws_ct = EmptyStore.draws_ct
  /\ first_date = EmptyStore.first_date
  /\ last_date = EmptyStore.last_date
  /\ history_rows = EmptyStore.history_rows
  /\ out_hist = NotWritten
  /\ out_ratings = NotWritten
  /\ out_ratings_simple = NotWritten
  /\ peak_out = NotWritten
  /\ cls_row = NoRow
  /\ cls_args = DefaultArgs
  /\ cls_out = NotClassified
  /\ columns = AllColumns
  /\ exit_code = <<>>
  /\ stderr = <<>>

rest_vars == <<input_csv, pc, df, i, store_vars, file_vars, cls_vars, io_vars>>

\* cmd_run_all: events or results given neither by flag nor by config.
RefuseArguments ==
  /\ cli.pc = "start"
  /\ (cli.data.events = "" \/ cli.data.results = "")
  /\ cli' = [cli EXCEPT !.pc = "exited", !.exit = <<2>>]
  /\ UNCHANGED rest_vars

\* cmd_run_all: the paths are resolved, step 1 is next.
ResolvePaths ==
  /\ cli.pc = "start"
  /\ cli.data.events # "" /\ cli.data.results # ""
  /\ cli' = [cli EXCEPT !.pc = "stage"]
  /\ UNCHANGED rest_vars

\* cmd_<stage>: find_script raises FileNotFoundError, which nothing catches.
ScriptNotFound ==
  /\ cli.pc = "stage" /\ ~cli.running /\ cli.next <= Len(Stages)
  /\ cli' = [cli EXCEPT !.pc = "exited", !.exit = <<1>>]
  /\ UNCHANGED rest_vars

\* cmd_<stage> up to subprocess.run: the child process is started.
StartStage ==
  /\ cli.pc = "stage" /\ ~cli.running /\ cli.next <= Len(Stages)
  /\ LET cmd == StageCommand(Stages[cli.next], cli.data, cli.paths)
     IN  cli' = [cli EXCEPT !.running = TRUE,
                            !.started = Append(@, [ stage |-> Stages[cli.next],
                                                    script |-> cmd.script,
                                                    reads |-> cmd.reads,
                                                    writes |-> cmd.writes ])]
  /\ UNCHANGED rest_vars

\* run_cmd after subprocess.run: the child has ended with some return code.
StageReturns ==
  /\ cli.pc = "stage" /\ cli.running
  /\ \E returncode \in ReturnCodes :
        LET r == run_cmd(returncode, TRUE)
        IN  cli' = IF r.exits
                   THEN [cli EXCEPT !.pc = "exited", !.running = FALSE,
                                    !.codes = Append(@, returncode),
                                    !.exit = <<r.code>>]
                   ELSE [cli EXCEPT !.running = FALSE,
                                    !.codes = Append(@, returncode),
                                    !.next = @ + 1]
  /\ UNCHANGED rest_vars

\* cmd_run_all returns after step 4: main returns None, exit status 0.
Finish ==
  /\ cli.pc = "stage" /\ ~cli.running /\ cli.next > Len(Stages)
  /\ cli' = [cli EXCEPT !.pc = "exited", !.exit = <<0>>]
  /\ UNCHANGED rest_vars

NextCli ==
  \/ RefuseArguments
  \/ ResolvePaths
  \/ ScriptNotFound
  \/ StartStage
  \/ StageReturns
  \/ Finish

SpecCli == InitCli /\ [][NextCli]_vars

(***************************************************************************)
(* Properties of run_elo.                                                  *)
(***************************************************************************)
RECURSIVE SumOffsets(_, _)
SumOffsets(r, keys) ==
  IF keys = <<>> THEN 0
  ELSE (r[Head(keys)] - BaseRating) + SumOffsets(r, Tail(keys))

\* The sum of the stored ratings minus base_rating times their number.
TotalOffset == SumOffsets(ratings, order)

Last(s) == s[Len(s)]

\* The step appended an audit record: a bout was processed.
BoutProcessed == Len(history_rows') = Len(history_rows) + 1

SelfBout(h) == h.fighter_a_id = h.fighter_b_id

\* C1 as stated: every processed bout, whatever the two keys it names, leaves
\* the sum of the stored ratings unchanged (a competitor first seen in the
\* bout counting at the base rating).
C1_ZeroSumAnyKeys == [][BoutProcessed => TotalOffset' = TotalOffset]_vars

\* C1 (amended): every processed bout that names two distinct competitor keys
\* leaves the sum of the stored ratings unchanged, what one side gains being
\* what the other loses; hence, as long as no processed bout named the same
\* key twice, the stored ratings sum to base_rating times the number of
\* competitors in the store.
C1_ZeroSumDistinctKeys ==
  /\ [][(BoutProcessed /\ ~SelfBout(Last(history_rows')))
          => /\ TotalOffset' = TotalOffset
             /\ LET h == Last(history_rows')
                IN  /\ ratings'[h.fighter_a_id] = h.post_rating_a
                    /\ ratings'[h.fighter_b_id] = h.post_rating_b
                    /\ h.post_rating_a - h.pre_rating_a
                         = h.pre_rating_b - h.post_rating_b]_vars
  /\ []((\A j \in 1..Len(history_rows) : ~SelfBout(history_rows[j]))
          => TotalOffset = 0)

\* A bout between two distinct competitors of unequal ratings has moved
\* rating from one to the other.
C1_Witness ==
  /\ history_rows # <<>>
  /\ LET h == Last(history_rows)
     IN  /\ ~SelfBout(h)
         /\ h.pre_rating_a # h.pre_rating_b
         /\ h.post_rating_a # h.pre_rating_a
         /\ ratings[h.fighter_a_id] = h.post_rating_a
         /\ Len(order) = 3

\* C2: when the two competitors enter a bout with equal ratings and one of
\* them wins, the audit record has p_A_win = 0.5 and K_eff = K * multiplier,
\* the winner's post rating is the pre rating plus K * multiplier / 2 and the
\* loser's the pre rating minus the same amount, and the store holds these
\* values; between two first-time competitors with multiplier 1.20 this is
\* K_eff = 28.8 and post ratings 1514.4 and 1485.6.
C2_EqualRatingsWin ==
  \A j \in 1..Len(history_rows) :
    LET h    == history_rows[j]
        row  == input_csv[h.idx]
        half == (K * h.method_multiplier * PScale) \div 2
        up   == IF h.winner_label = <<"a">> THEN h.post_rating_a ELSE h.post_rating_b
        down == IF h.winner_label = <<"a">> THEN h.post_rating_b ELSE h.post_rating_a
    IN  (h.pre_rating_a = h.pre_rating_b /\ h.winner_label \in {<<"a">>, <<"b">>})
        => /\ h.p_A_win * 2 = PScale
           /\ h.method_multiplier
                = (IF row.method_multiplier.fin THEN row.method_multiplier.v ELSE MScale)
           /\ h.K_eff = K * h.method_multiplier
           /\ up = h.pre_rating_a + half
           /\ down = h.pre_rating_a - half
           /\ (j = Len(history_rows) /\ ~SelfBout(h))
                => /\ ratings[h.fighter_a_id] = h.post_rating_a
                   /\ ratings[h.fighter_b_id] = h.post_rating_b
           /\ (h.pre_rating_a = 1500 * RScale /\ row.method_multiplier = Finite(12))
                => /\ h.K_eff = 288
                   /\ up = 1514400000
                   /\ down = 1485600000

\* Two first-time competitors, a finish (multiplier 1.20) won by side A.
C2_Witness ==
  /\ Len(history_rows) = 1
  /\ history_rows[1].winner_label = <<"a">>
  /\ history_rows[1].method_multiplier = 12
  /\ history_rows[1].K_eff = 288
  /\ history_rows[1].post_rating_a = 1514400000
  /\ ~SelfBout(history_rows[1])
  /\ ratings[history_rows[1].fighter_b_id] = 1485600000

\* The label of the row the loop is at, trimmed and lower-cased.
CurrentLabel == Lower(Strip(Str(df[i].winner_label)))

Resolved(label) == label \in { <<"a">>, <<"b">>, <<"d","r","a","w">> }

\* C3: a row whose outcome label, trimmed and compared without case, is none
\* of a, b, draw is skipped: the iteration changes no rating, no counter, no
\* first or last date, not the set of known competitors, and appends no
\* audit record.
C3_UnresolvedSkipped ==
  [][(pc = "loop" /\ i <= Len(df) /\ ~Resolved(CurrentLabel))
       => /\ UNCHANGED store_vars
          /\ UNCHANGED file_vars
          /\ i' = i + 1]_vars

\* The loop has passed an unresolved row after it had processed a bout.
C3_Witness ==
  /\ pc = "loop"
  /\ i = 3
  /\ history_rows # <<>>
  /\ Lower(Strip(Str(df[2].winner_label))) = <<"n","c">>
  /\ df[2].winner_label # <<"n","c">>
  /\ fights_ct[history_rows[1].fighter_a_id] = 1

\* The post rating the store holds for key fid after the bout of record h.
StoredAfter(h, fid) ==
  IF h.fighter_b_id = fid THEN h.post_rating_b ELSE h.post_rating_a

Involves(h, fid) == h.fighter_a_id = fid \/ h.fighter_b_id = fid

\* The rating a competitor enters record j with: the base rating when no
\* earlier record involves the key, else what the latest earlier one stored.
EntryRating(j, fid) ==
  LET earlier == { n \in 1..(j - 1) : Involves(history_rows[n], fid) }
  IN  IF earlier = {} THEN base_rating * RScale
      ELSE StoredAfter(history_rows[CHOOSE n \in earlier : \A o \in earlier : o <= n], fid)

\* C4: in the ledger a competitor's pre-update rating is base_rating in the
\* first processed bout that names the key, and in every later one it is the
\* rating stored by the competitor's previous bout (the entry is reused, not
\* reset to the base rating); every key a record names is in the store.
C4_ImplicitEntry ==
  \A j \in 1..Len(history_rows) :
    LET h == history_rows[j]
    IN  /\ h.pre_rating_a = EntryRating(j, h.fighter_a_id)
        /\ h.pre_rating_b = EntryRating(j, h.fighter_b_id)
        /\ h.fighter_a_id \in DOMAIN ratings
        /\ h.fighter_b_id \in DOMAIN ratings

\* A competitor's second bout starts from the rating the first one left,
\* which is not the base rating.
C4_Witness ==
  /\ Len(history_rows) = 2
  /\ history_rows[2].fighter_a_id = history_rows[1].fighter_b_id
  /\ history_rows[2].pre_rating_a = history_rows[1].post_rating_b
  /\ history_rows[2].pre_rating_a # base_rating * RScale
  /\ history_rows[2].pre_rating_b = base_rating * RScale

\* Row n1 of the input comes before row n2 in date order (a missing or
\* unparseable date after every date), then event name, then bout label,
\* then position in the file.
InputBefore(n1, n2) ==
  LET r1 == input_csv[n1]
      r2 == input_csv[n2]
      d1 == to_datetime(r1.DATE)
      d2 == to_datetime(r2.DATE)
  IN  \/ d1 # NaT /\ (d2 = NaT \/ d1 < d2)
      \/ /\ d1 = d2
         /\ \/ TextLess(r1.EVENT, r2.EVENT)
            \/ /\ r1.EVENT = r2.EVENT
               /\ \/ TextLess(r1.BOUT, r2.BOUT)
                  \/ r1.BOUT = r2.BOUT /\ n1 < n2

IsResolvedRow(r) == Resolved(Lower(Strip(Str(r.winner_label))))

\* C5: whatever the order of the rows in the file, the frame the loop runs
\* over holds every input row once, in non-decreasing order of date, then
\* event name, then bout label, then position in the file; the audit records
\* are appended in that order; and when the loop has ended every row with a
\* resolved outcome has its record, also when its date is missing or
\* unparseable.
C5_ProcessedInOrder ==
  pc # "start" =>
    /\ Len(df) = Len(input_csv)
    /\ { df[j].idx : j \in 1..Len(df) } = 1..Len(input_csv)
    /\ \A j, n \in 1..Len(df) : j < n => InputBefore(df[j].idx, df[n].idx)
    /\ \A j, n \in 1..Len(history_rows) :
          j < n => InputBefore(history_rows[j].idx, history_rows[n].idx)
    /\ { history_rows[j].idx : j \in 1..Len(history_rows) }
         = { df[j].idx : j \in { n \in 1..Len(df) : n < i /\ IsResolvedRow(df[n]) } }
    /\ \A j \in 1..Len(history_rows) :
          history_rows[j].DATE = to_datetime(input_csv[history_rows[j].idx].DATE)

\* The second row of the file was processed first, and the first row, whose
\* date cannot be parsed, after it.
C5_Witness ==
  /\ Len(history_rows) = 2
  /\ history_rows[1].idx = 2
  /\ history_rows[2].idx = 1
  /\ history_rows[2].DATE = NaT
  /\ input_csv[1].DATE = <<"x">>

RECURSIVE Reverse(_)
Reverse(s) == IF s = <<>> THEN <<>> ELSE Reverse(Tail(s)) \o <<Head(s)>>

RECURSIVE ResolvedRows(_)
ResolvedRows(rows) ==
  IF rows = <<>> THEN <<>>
  ELSE (IF IsResolvedRow(Head(rows)) THEN <<Head(rows)>> ELSE <<>>)
         \o ResolvedRows(Tail(rows))

\* The ratings run_elo's loop leaves when it processes the resolved bouts of
\* this run in the reverse of their chronological order.
ReversedRatings == RunLoop(EmptyStore, Reverse(ResolvedRows(df))).ratings

\* The run processed exactly two bouts, which share a competitor.
TwoBoutsSharing ==
  /\ pc = "elo_done"
  /\ Len(history_rows) = 2
  /\ {history_rows[1].fighter_a_id, history_rows[1].fighter_b_id}
       \cap {history_rows[2].fighter_a_id, history_rows[2].fighter_b_id} # {}

IsDraw(h) == h.winner_label = <<"d","r","a","w">>

WinnerId(h) == IF h.winner_label = <<"a">> THEN h.fighter_a_id ELSE h.fighter_b_id

\* The two records are the same bout: same two competitors, same winner,
\* same multiplier.
SameBout(h1, h2) ==
  /\ {h1.fighter_a_id, h1.fighter_b_id} = {h2.fighter_a_id, h2.fighter_b_id}
  /\ ~IsDraw(h1) /\ ~IsDraw(h2)
  /\ WinnerId(h1) = WinnerId(h2)
  /\ h1.method_multiplier = h2.method_multiplier

\* C6 as stated: for every two resolved bouts that share a competitor,
\* processing them in reversed order gives final ratings that differ from
\* those of the chronological order (stated here for bouts between two
\* distinct competitors, where it already fails).
C6_ReversedOrderDiffers ==
  (TwoBoutsSharing /\ ~SelfBout(history_rows[1]) /\ ~SelfBout(history_rows[2]))
    => ReversedRatings # ratings

\* C6 (amended): for two resolved bouts with a positive multiplier, each
\* between two distinct competitors, that share a competitor and are
\* processed from an empty store, the reversed order gives different final
\* ratings unless both bouts are draws or the two are the same bout (same
\* two competitors, same winner, same multiplier).
C6_ReversedOrderDiffersUnlessNeutral ==
  ( /\ TwoBoutsSharing
    /\ ~SelfBout(history_rows[1]) /\ ~SelfBout(history_rows[2])
    /\ history_rows[1].method_multiplier > 0 /\ history_rows[2].method_multiplier > 0
    /\ ~(IsDraw(history_rows[1]) /\ IsDraw(history_rows[2]))
    /\ ~SameBout(history_rows[1], history_rows[2]) )
  => ReversedRatings # ratings

\* A draw followed by a win of the same two competitors: in this order the
\* draw moves nothing, in the reverse it does.
C6_Witness ==
  /\ TwoBoutsSharing
  /\ IsDraw(history_rows[1]) /\ ~IsDraw(history_rows[2])
  /\ ~SelfBout(history_rows[1]) /\ ~SelfBout(history_rows[2])
  /\ history_rows[1].post_rating_a = history_rows[1].pre_rating_a
  /\ ReversedRatings # ratings
  /\ DOMAIN ReversedRatings = DOMAIN ratings

(***************************************************************************)
(* Properties of compute_peak and of the snapshot.                         *)
(***************************************************************************)
\* The sides of the ledger: <<j, "a">> and <<j, "b">> for each record j.
LedgerSides == (1..Len(out_hist.rows)) \X {"a", "b"}

SideId(e) ==
  IF e[2] = "a" THEN out_hist.rows[e[1]].fighter_a_id ELSE out_hist.rows[e[1]].fighter_b_id

SideName(e) ==
  IF e[2] = "a" THEN out_hist.rows[e[1]].fighter_a_name
  ELSE out_hist.rows[e[1]].fighter_b_name

SidePost(e) ==
  IF e[2] = "a" THEN out_hist.rows[e[1]].post_rating_a
  ELSE out_hist.rows[e[1]].post_rating_b

SideDate(e) == out_hist.rows[e[1]].DATE

SidesOf(fid) == { e \in LedgerSides : SideId(e) = fid }

LedgerKeys == { SideId(e) : e \in LedgerSides }

\* The sides of fid whose post rating no other side of fid exceeds.
PeakSides(fid) ==
  { e \in SidesOf(fid) : \A o \in SidesOf(fid) : SidePost(o) <= SidePost(e) }

\* The earliest date of a set of sides: NaT only when none has a date.
EarliestDate(sides) ==
  LET dated == { SideDate(e) : e \in sides } \ {NaT}
  IN  IF dated = {} THEN NaT ELSE CHOOSE d \in dated : \A o \in dated : d <= o

PeakRecordsOf(fid) ==
  { n \in 1..Len(peak_out.rows) : peak_out.rows[n].fighter_id = fid }

\* C7: for every competitor key in the ledger compute_peak returns exactly
\* one record (and no other records); its peak_rating is the maximum of the
\* post-update ratings of the competitor's sides, so at least each of them,
\* and its peak_date is the earliest date among the sides that attain it.
C7_PeakIsMaximum ==
  pc = "peak_done" =>
    /\ Len(peak_out.rows) = Cardinality(LedgerKeys)
    /\ \A fid \in LedgerKeys :
         /\ Cardinality(PeakRecordsOf(fid)) = 1
         /\ \A n \in PeakRecordsOf(fid) :
              /\ \E e \in SidesOf(fid) : SidePost(e) = peak_out.rows[n].peak_rating
              /\ \A e \in SidesOf(fid) : SidePost(e) <= peak_out.rows[n].peak_rating
              /\ peak_out.rows[n].peak_date = EarliestDate(PeakSides(fid))

\* A competitor attains the peak on two days, on side B first and on side A
\* later, and the peak record carries the earlier day.
C7_Witness ==
  /\ pc = "peak_done"
  /\ \E fid \in LedgerKeys :
       /\ \E e1, e2 \in PeakSides(fid) :
            /\ e1[2] = "b" /\ e2[2] = "a"
            /\ SideDate(e1) # NaT /\ SideDate(e2) # NaT
            /\ SideDate(e1) < SideDate(e2)
       /\ \A n \in PeakRecordsOf(fid) : peak_out.rows[n].peak_date = 1

\* The last side of fid in the ledger.
LastSideOf(fid) ==
  CHOOSE e \in SidesOf(fid) :
    \A o \in SidesOf(fid) : o[1] < e[1] \/ (o[1] = e[1] /\ (o[2] = e[2] \/ e[2] = "b"))

\* C8 as stated: the display name of a peak record is the name carried by
\* the competitor's last ledger entry (stated here for ledgers whose bouts
\* are between two distinct competitors, where it already fails).
C8_NameOfLastEntry ==
  (pc = "peak_done" /\ \A j \in 1..Len(out_hist.rows) : ~SelfBout(out_hist.rows[j])) =>
    \A n \in 1..Len(peak_out.rows) :
      peak_out.rows[n].fighter_name = SideName(LastSideOf(peak_out.rows[n].fighter_id))

\* C8 (amended): the display name of a peak record is the name carried by
\* the ledger entry the peak was taken from, an entry of the competitor with
\* the record's rating, date, event and bout (the key when that name is
\* empty): the competitor's most recently seen name as of that bout, not as
\* of the last ledger entry.
C8_NameOfPeakEntry ==
  pc = "peak_done" =>
    \A n \in 1..Len(peak_out.rows) :
      LET r == peak_out.rows[n]
      IN  \E e \in PeakSides(r.fighter_id) :
            /\ SidePost(e) = r.peak_rating
            /\ SideDate(e) = r.peak_date
            /\ out_hist.rows[e[1]].EVENT = r.peak_event
            /\ out_hist.rows[e[1]].BOUT = r.peak_bout
            /\ r.fighter_name = (IF SideName(e) = <<>> THEN r.fighter_id ELSE SideName(e))

\* A competitor reached the peak in the first bout and appears under another
\* name in the last one; the peak record carries the name of the first.
C8_Witness ==
  /\ pc = "peak_done"
  /\ Len(out_hist.rows) = 2
  /\ \E n \in 1..Len(peak_out.rows) :
       LET r == peak_out.rows[n]
       IN  /\ PeakSides(r.fighter_id) = { <<1, "a">> }
           /\ <<2, "b">> \in SidesOf(r.fighter_id)
           /\ r.fighter_name = SideName(<<1, "a">>)
           /\ r.fighter_name # SideName(<<2, "b">>)

\* The competitors that took part in a processed bout.
Competitors ==
  { history_rows[j].fighter_a_id : j \in 1..Len(history_rows) }
    \cup { history_rows[j].fighter_b_id : j \in 1..Len(history_rows) }

OneRowPerCompetitor ==
  /\ Len(out_ratings.rows) = Cardinality(Competitors)
  /\ \A fid \in Competitors :
       \E n \in 1..Len(out_ratings.rows) :
          /\ out_ratings.rows[n].fighter_id = fid
          /\ out_ratings.rows[n].rating = ratings[fid]

\* The position of key fid in the store (the order of first appearance).
StorePosition(fid) == CHOOSE n \in 1..Len(order) : order[n] = fid

\* The snapshot keeps competitors of equal rating in the order of the store,
\* as a sort that happens to be stable does.
TiesInStoreOrder ==
  \A j, n \in 1..Len(out_ratings.rows) :
    (j < n /\ out_ratings.rows[j].rating = out_ratings.rows[n].rating)
      => StorePosition(out_ratings.rows[j].fighter_id)
           < StorePosition(out_ratings.rows[n].fighter_id)

\* C9 as stated: the snapshot has one row per competitor of a processed
\* bout, by final rating descending, competitors of equal rating in the
\* order of their keys (stated here for the snapshots in which the sort kept
\* equal ratings in the order of the store, where it already fails).
C9_SnapshotTiesByKey ==
  (out_ratings.written /\ TiesInStoreOrder) =>
    /\ OneRowPerCompetitor
    /\ \A j, n \in 1..Len(out_ratings.rows) :
         j < n =>
           \/ out_ratings.rows[j].rating > out_ratings.rows[n].rating
           \/ /\ out_ratings.rows[j].rating = out_ratings.rows[n].rating
              /\ TextLess(out_ratings.rows[j].fighter_id, out_ratings.rows[n].fighter_id)

\* C9 (amended): the snapshot has one row per competitor of a processed
\* bout, holding the competitor's final rating, by final rating descending;
\* the order of competitors of equal rating is not determined by their keys.
C9_SnapshotDescending ==
  out_ratings.written =>
    /\ OneRowPerCompetitor
    /\ \A j, n \in 1..Len(out_ratings.rows) :
         j < n => out_ratings.rows[j].rating >= out_ratings.rows[n].rating
    /\ out_ratings_simple.written
    /\ Len(out_ratings_simple.rows) = Len(out_ratings.rows)

\* A snapshot of three competitors of three ratings, the last one seen first.
C9_Witness ==
  /\ out_ratings.written
  /\ Len(out_ratings.rows) = 3
  /\ out_ratings.rows[1].rating > out_ratings.rows[2].rating
  /\ out_ratings.rows[2].rating > out_ratings.rows[3].rating
  /\ out_ratings.rows[1].fighter_id = order[3]

\* C10: every bout whose outcome label is draw, in any letter case, is
\* classified draw with the configured multiplier of normal decisions and the
\* basis outcome_draw, whatever its method text, scorecard text and scheduled
\* rounds.
C10_DrawLabelClassifiedDraw ==
  (pc = "classified" /\ cls_row.winner_label # NaN
     /\ Lower(cls_row.winner_label) = L_draw)
    => /\ cls_out.method_class = "draw"
       /\ cls_out.method_multiplier = cls_args.m_dec
       /\ cls_out.decision_basis = "outcome_draw"

\* A draw written in capitals, with a finish as its method, scorecards with a
\* margin of three, five scheduled rounds and multipliers other than the
\* defaults, has been classified.
C10_Witness ==
  /\ pc = "classified"
  /\ cls_row.winner_label = <<"D","R","A","W">>
  /\ method_is_finish(cls_row.METHOD)
  /\ parse_scorecard_margins(normalize_text(cls_row.DETAILS)) = <<1, 3, 1>>
  /\ cls_row.rounds_scheduled = Finite(5)
  /\ cls_args # DefaultArgs
  /\ cls_out.method_class = "draw"

\* The outcome label of the classified row as classify_row compares it.
ClsOutcome == Lower(normalize_text(cls_row.winner_label))

\* The method text of the classified row, trimmed and lower-cased.
ClsMethod == Lower(normalize_text(cls_row.METHOD))

\* The method text says split decision or majority decision.
SplitOrMajorityDecision ==
  \/ Contains(ClsMethod, <<"s","p","l","i","t"," ","d","e","c","i","s","i","o","n">>)
  \/ Contains(ClsMethod, <<"m","a","j","o","r","i","t","y"," ","d","e","c","i","s","i","o","n">>)

\* C11 as stated: a bout whose method text contains "split decision" or
\* "majority decision" is classified decision_normal with the normal
\* multiplier, for every outcome label and every scorecard text.
C11_SplitMajorityAlwaysNormal ==
  (pc = "classified" /\ SplitOrMajorityDecision)
    => /\ cls_out.method_class = "decision_normal"
       /\ cls_out.method_multiplier = cls_args.m_dec

\* C11 (amended): a bout whose outcome label is neither draw nor nc and whose
\* method text contains "split decision" or "majority decision" is
\* classified decision_normal with the normal multiplier and the basis
\* method_split or method_majority, whatever the scorecards; with the label
\* draw or nc it is classified draw or nc, and in no case decision_dominant.
C11_SplitMajorityNormalUnlessDrawNC ==
  (pc = "classified" /\ SplitOrMajorityDecision)
    => /\ cls_out.method_class # "decision_dominant"
       /\ cls_out.method_multiplier = cls_args.m_dec
       /\ cls_out.judge_margins = <<>>
       /\ ClsOutcome \notin {L_draw, L_nc}
            => /\ cls_out.method_class = "decision_normal"
               /\ cls_out.decision_basis \in {"method_split", "method_majority"}
       /\ ClsOutcome = L_draw => cls_out.method_class = "draw"
       /\ ClsOutcome = L_nc => cls_out.method_class = "nc"

\* A split decision won by side A with a scorecard margin of three has been
\* classified decision_normal.
C11_Witness ==
  /\ pc = "classified"
  /\ Contains(ClsMethod, <<"s","p","l","i","t"," ","d","e","c","i","s","i","o","n">>)
  /\ cls_row.winner_label = L_a
  /\ parse_scorecard_margins(normalize_text(cls_row.DETAILS)) = <<1, 3, 1>>
  /\ cls_out.method_class = "decision_normal"
  /\ cls_out.decision_basis = "method_split"

\* The judges' margins written in the scorecard texts of the model, read off
\* the texts by hand.
CardMargins(details) ==
  IF details = <<"4","7"," ","-"," ","4","8",",","4","9"," ","-"," ","4","6",",","4","7"," ","-"," ","4","8">>
  THEN <<1, 3, 1>>
  ELSE IF details = <<"4","8"," ","-"," ","4","7",",","4","8"," ","-"," ","4","7",",","4","8"," ","-"," ","4","7">>
  THEN <<1, 1, 1>>
  ELSE IF details = <<"A","l"," ","3","0"," ","-"," ","2","8",".","B","o"," ","3","0"," ","-"," ","2","8",".","C","y"," ","2","9","-","2","8",".">>
  THEN <<2, 2, 1>>
  ELSE IF details = <<"3","0",EnDash,"2","7">>
  THEN <<3>>
  ELSE <<>>

\* The classified row is a unanimous or generic decision with a winner or an
\* unresolved label other than draw and nc.
PlainDecision ==
  /\ ClsOutcome \notin {L_draw, L_nc}
  /\ Contains(ClsMethod, <<"d","e","c","i","s","i","o","n">>)
  /\ ~Contains(ClsMethod, <<"s","p","l","i","t">>)
  /\ ~Contains(ClsMethod, <<"m","a","j","o","r","i","t","y">>)

\* C12: a unanimous or generic decision (outcome not draw/nc) whose scorecard
\* text yields at least one margin is decision_dominant with basis
\* details_any_margin_ge_3 if a margin is 3 or more, else decision_dominant
\* with basis details_two_cards_ge_2 if two margins are 2 or more, else
\* decision_normal with basis details_small_margins; the margins are the
\* absolute differences of the pairs in order ("47 - 48,49 - 46,47 - 48"
\* gives 1,3,1 and "48 - 47,48 - 47,48 - 47" gives 1,1,1); and the result is
\* the same for every scheduled-round count and time format.
C12_DecisionByMargins ==
  LET margins == CardMargins(cls_row.DETAILS)
      n == Len(margins)
  IN  (pc = "classified" /\ PlainDecision /\ margins # <<>>)
      => /\ cls_out.judge_margins = JoinMargins(margins)
         /\ (\E j \in 1..n : margins[j] >= 3)
              => cls_out = Classified("decision_dominant", cls_args.m_dom,
                                      "details_any_margin_ge_3", JoinMargins(margins))
         /\ ((\A j \in 1..n : margins[j] < 3)
               /\ \E j, o \in 1..n : j # o /\ margins[j] >= 2 /\ margins[o] >= 2)
              => cls_out = Classified("decision_dominant", cls_args.m_dom,
                                      "details_two_cards_ge_2", JoinMargins(margins))
         /\ ((\A j \in 1..n : margins[j] < 3)
               /\ ~\E j, o \in 1..n : j # o /\ margins[j] >= 2 /\ margins[o] >= 2)
              => cls_out = Classified("decision_normal", cls_args.m_dec,
                                      "details_small_margins", JoinMargins(margins))
         /\ cls_row.DETAILS = <<"4","7"," ","-"," ","4","8",",","4","9"," ","-"," ","4","6",",","4","7"," ","-"," ","4","8">>
              => /\ cls_out.judge_margins = <<"1", ",", "3", ",", "1">>
                 /\ cls_out.method_class = "decision_dominant"
         /\ cls_row.DETAILS = <<"4","8"," ","-"," ","4","7",",","4","8"," ","-"," ","4","7",",","4","8"," ","-"," ","4","7">>
              => /\ cls_out.judge_margins = <<"1", ",", "1", ",", "1">>
                 /\ cls_out.method_class = "decision_normal"
         /\ \A r \in ClassifierRounds, t \in ClassifierTimeFormats :
              classify_row([cls_row EXCEPT !.rounds_scheduled = r, !.TIME_FORMAT = t],
                           cls_args.m_finish, cls_args.m_dom, cls_args.m_dec) = cls_out

\* A unanimous decision over five scheduled rounds with two cards of margin
\* two and one of margin one has been classified dominant on two cards.
C12_Witness ==
  /\ pc = "classified"
  /\ PlainDecision
  /\ Contains(ClsMethod, <<"u","n","a","n","i","m","o","u","s">>)
  /\ CardMargins(cls_row.DETAILS) = <<2, 2, 1>>
  /\ cls_row.rounds_scheduled = Finite(5)
  /\ cls_out.decision_basis = "details_two_cards_ge_2"
  /\ cls_out.judge_margins = <<"2", ",", "2", ",", "1">>

\* C13: a decision that is neither split nor majority (outcome not draw/nc)
\* and whose scorecard text is missing, blank or without a parsable pair is
\* classified on the method keyword: decision_dominant with the dominant
\* multiplier and basis method_unanimous_no_details when the method mentions
\* "unanimous", else decision_normal with the normal multiplier and basis
\* method_generic_decision; classify_row returns in every such case.
C13_NoCardsFallsBackOnKeyword ==
  (pc = "classified" /\ PlainDecision /\ CardMargins(cls_row.DETAILS) = <<>>)
    => cls_out =
         IF Contains(ClsMethod, <<"u","n","a","n","i","m","o","u","s">>)
         THEN Classified("decision_dominant", cls_args.m_dom,
                         "method_unanimous_no_details", <<>>)
         ELSE Classified("decision_normal", cls_args.m_dec,
                         "method_generic_decision", <<>>)

\* A unanimous decision whose scorecard text holds half a score has been
\* classified on the keyword.
C13_Witness ==
  /\ pc = "classified"
  /\ PlainDecision
  /\ Contains(ClsMethod, <<"u","n","a","n","i","m","o","u","s">>)
  /\ cls_row.DETAILS = <<"4","7"," ","-">>
  /\ cls_args # DefaultArgs
  /\ cls_out.decision_basis = "method_unanimous_no_details"
  /\ cls_out.method_multiplier = cls_args.m_dom

\* The method text of the classified row contains a finish keyword.
HasFinishKeyword ==
  \E j \in 1..Len(FINISH_TOKENS) : Contains(ClsMethod, FINISH_TOKENS[j])

MentionsDecision == Contains(ClsMethod, <<"d","e","c","i","s","i","o","n">>)

\* C14 as stated: a bout whose outcome is not draw/nc, whose method text
\* contains a finish keyword and which the finish rule (finish keyword
\* without "decision") did not classify, is classified finish with the
\* finish multiplier and basis method_finish_fallback.
C14_FallbackFinish ==
  (pc = "classified" /\ ClsOutcome \notin {L_draw, L_nc}
     /\ HasFinishKeyword /\ ~(HasFinishKeyword /\ ~MentionsDecision))
    => cls_out = Classified("finish", cls_args.m_finish, "method_finish_fallback", <<>>)

\* C14 (amended): a bout whose outcome is not draw/nc and whose method text
\* contains a finish keyword is classified finish with the finish multiplier
\* and basis method_finish when the text does not mention "decision", and by
\* the decision rules (decision_normal or decision_dominant) when it does;
\* no row is ever given the basis method_finish_fallback.
C14_FinishKeywordYieldsToDecision ==
  pc = "classified" =>
    /\ cls_out.decision_basis # "method_finish_fallback"
    /\ (ClsOutcome \notin {L_draw, L_nc} /\ HasFinishKeyword)
         => IF MentionsDecision
            THEN /\ cls_out.method_class \in {"decision_normal", "decision_dominant"}
                 /\ cls_out.method_multiplier \in {cls_args.m_dec, cls_args.m_dom}
            ELSE cls_out = Classified("finish", cls_args.m_finish, "method_finish", <<>>)

\* A method text with a finish keyword and the word decision, won by side
\* B, has been classified by the decision rules.
C14_Witness ==
  /\ pc = "classified"
  /\ cls_row.winner_label = L_b
  /\ HasFinishKeyword /\ MentionsDecision
  /\ cls_row.DETAILS = NaN
  /\ cls_out = Classified("decision_normal", cls_args.m_dec, "method_generic_decision", <<>>)

(***************************************************************************)
(* Properties of run_elo on inputs of any shape.                           *)
(***************************************************************************)
\* The required columns the input lacks, as a set.
Lacking == { req[j] : j \in 1..Len(req) } \ columns

\* C15: when the input lacks a required column, the only step run_elo takes
\* is the error exit: status 1 and the list of missing columns on the error
\* stream, no row read, no bout processed, and the history, ratings and
\* simple-ratings files neither written nor modified.
C15_MissingColumnRefused ==
  /\ [][Lacking # {}
          => /\ pc = "start" /\ pc' = "elo_exit"
             /\ exit_code' = <<1>>
             /\ Len(stderr') = 1
             /\ { stderr'[1].columns[j] : j \in 1..Len(stderr'[1].columns) } = Lacking
             /\ UNCHANGED file_vars
             /\ UNCHANGED store_vars
             /\ UNCHANGED <<df, i>>]_vars
  /\ [](Lacking # {} => (history_rows = <<>> /\ df = <<>> /\ exit_code # <<0>>))

\* An input with rows but without the outcome column has been refused, the
\* files of an earlier run left as they were.
C15_Witness ==
  /\ pc = "elo_exit"
  /\ Lacking = {"winner_label"}
  /\ Len(input_csv) = MaxRows
  /\ out_hist = Stale /\ out_ratings = Stale /\ out_ratings_simple = Stale
  /\ exit_code = <<1>>
  /\ history_rows = <<>>

(***************************************************************************)
(* Properties of the ledger and of the counters.                           *)
(***************************************************************************)
\* The post-update ratings record h gives for key fid, one for each side
\* that names the key.
PostsOf(h, fid) ==
  (IF h.fighter_a_id = fid THEN {h.post_rating_a} ELSE {})
    \cup (IF h.fighter_b_id = fid THEN {h.post_rating_b} ELSE {})

\* The latest record before record j that involves key fid, 0 if none.
PrevRecord(j, fid) ==
  LET earlier == { n \in 1..(j - 1) : Involves(history_rows[n], fid) }
  IN  IF earlier = {} THEN 0 ELSE CHOOSE n \in earlier : \A o \in earlier : o <= n

\* The pre-update rating pre of key fid in record j continues the ledger.
Continues(j, fid, pre) ==
  IF PrevRecord(j, fid) = 0
  THEN pre = base_rating * RScale
  ELSE PostsOf(history_rows[PrevRecord(j, fid)], fid) = {pre}

\* Every record chains to the competitor's previous one, a bout gives one
\* post-update rating per competitor, and the snapshot holds the post-update
\* rating of each competitor's last record.
LedgerChain ==
  /\ \A j \in 1..Len(history_rows) :
       LET h == history_rows[j]
       IN  /\ Continues(j, h.fighter_a_id, h.pre_rating_a)
           /\ Continues(j, h.fighter_b_id, h.pre_rating_b)
           /\ ~SelfBout(h)
  /\ out_ratings.written =>
       \A j \in 1..Len(out_ratings.rows) :
         LET r == out_ratings.rows[j]
             n == PrevRecord(Len(history_rows) + 1, r.fighter_id)
         IN  n > 0 /\ PostsOf(history_rows[n], r.fighter_id) = {r.rating}

\* C16 as stated: in every run the ledger is a consistent chain per
\* competitor, each bout contributing exactly one post-update rating per
\* competitor, and the snapshot rating is the post-update rating of the
\* competitor's last record.
C16_LedgerChainAlways == LedgerChain

\* C16 (amended): as long as every processed bout names two distinct
\* competitor keys, the ledger is a consistent chain per competitor, each
\* bout contributes exactly one post-update rating per competitor, and the
\* snapshot rating is the post-update rating of the competitor's last record.
C16_LedgerChainDistinctKeys ==
  (\A j \in 1..Len(history_rows) : ~SelfBout(history_rows[j])) => LedgerChain

\* Two bouts with a common competitor have been processed and the snapshot
\* written: the second record starts from the first one's post-update rating
\* and the snapshot ends on the second one's.
C16_Witness ==
  /\ out_ratings.written
  /\ Len(history_rows) = 2
  /\ ~SelfBout(history_rows[1]) /\ ~SelfBout(history_rows[2])
  /\ history_rows[2].fighter_a_id = history_rows[1].fighter_a_id
  /\ history_rows[2].pre_rating_a = history_rows[1].post_rating_a
  /\ history_rows[2].pre_rating_a # base_rating * RScale
  /\ history_rows[2].post_rating_a # history_rows[2].pre_rating_a
  /\ \E j \in 1..Len(out_ratings.rows) :
       /\ out_ratings.rows[j].fighter_id = history_rows[2].fighter_a_id
       /\ out_ratings.rows[j].rating = history_rows[2].post_rating_a

\* The sides of the audit records so far: <<j, "a">>, <<j, "b">>.
RecordSides == (1..Len(history_rows)) \X {"a", "b"}

RecordSideId(e) ==
  IF e[2] = "a" THEN history_rows[e[1]].fighter_a_id ELSE history_rows[e[1]].fighter_b_id

\* The sides that name key fid, those of them that won, lost, drew.
SidesNaming(fid) == { e \in RecordSides : RecordSideId(e) = fid }

SideLabel(e) == history_rows[e[1]].winner_label

WonSides(fid) == { e \in SidesNaming(fid) : SideLabel(e) = <<e[2]>> }

DrawnSides(fid) == { e \in SidesNaming(fid) : SideLabel(e) = <<"d","r","a","w">> }

LostSides(fid) == (SidesNaming(fid) \ WonSides(fid)) \ DrawnSides(fid)

Count(d, fid) == IF fid \in DOMAIN d THEN d[fid] ELSE 0

RECURSIVE SumCounts(_, _)
SumCounts(d, keys) ==
  IF keys = <<>> THEN 0 ELSE Count(d, Head(keys)) + SumCounts(d, Tail(keys))

\* C17: after any sequence of bouts every competitor has fights = wins +
\* losses + draws, a fight count equal to the number of audit-record sides
\* that name the competitor, and win, loss and draw counts equal to the
\* numbers of those sides that won, lost and drew (so a draw adds to the draw
\* counter of both and to no win or loss counter); summed over the
\* competitors wins equal losses; and the snapshot carries these counts.
C17_CountersConsistent ==
  /\ \A n \in 1..Len(order) :
       LET fid == order[n]
       IN  /\ Count(fights_ct, fid)
                = Count(wins_ct, fid) + Count(losses_ct, fid) + Count(draws_ct, fid)
           /\ Count(fights_ct, fid) = Cardinality(SidesNaming(fid))
           /\ Count(wins_ct, fid) = Cardinality(WonSides(fid))
           /\ Count(losses_ct, fid) = Cardinality(LostSides(fid))
           /\ Count(draws_ct, fid) = Cardinality(DrawnSides(fid))
  /\ SumCounts(wins_ct, order) = SumCounts(losses_ct, order)
  /\ { RecordSideId(e) : e \in RecordSides } = { order[n] : n \in 1..Len(order) }
  /\ out_ratings.written =>
       \A j \in 1..Len(out_ratings.rows) :
         LET r == out_ratings.rows[j]
         IN  /\ r.fights = Cardinality(SidesNaming(r.fighter_id))
             /\ r.wins = Cardinality(WonSides(r.fighter_id))
             /\ r.losses = Cardinality(LostSides(r.fighter_id))
             /\ r.draws = Cardinality(DrawnSides(r.fighter_id))
             /\ r.fights = r.wins + r.losses + r.draws

\* A draw and a win between the same two competitors have been processed
\* and the snapshot written: each has two fights and one draw, one of them
\* the win and the other the loss.
C17_Witness ==
  /\ out_ratings.written
  /\ Len(history_rows) = 2
  /\ Len(order) = 2
  /\ order[1] # order[2]
  /\ Count(draws_ct, order[1]) = 1 /\ Count(draws_ct, order[2]) = 1
  /\ Count(fights_ct, order[1]) = 2 /\ Count(fights_ct, order[2]) = 2
  /\ Count(wins_ct, order[1]) + Count(wins_ct, order[2]) = 1
  /\ Count(losses_ct, order[1]) + Count(losses_ct, order[2]) = 1

(***************************************************************************)
(* Properties of the run-all command.                                      *)
(***************************************************************************)
\* C18: run-all starts the stages in the order prepare, classify, elo, peak,
\* each stage after the first told to read a file the previous stage was
\* told to write; a stage is started only when every earlier stage has
\* returned 0; when a stage returns a code other than 0 the CLI exits with
\* that code and the stage is the last one started; the CLI exits with 0
\* only after all four stages have returned 0; and when events or results
\* come neither from a flag nor from the config it exits with 2 and no stage
\* is started.
C18_RunAllInOrder ==
  LET n_started == Len(cli.started)
      n_codes   == Len(cli.codes)
  IN  /\ n_started <= Len(Stages)
      /\ \A n \in 1..n_started : cli.started[n].stage = Stages[n]
      /\ \A n \in 2..n_started :
            /\ cli.started[n].reads # {}
            /\ cli.started[n].reads \subseteq cli.started[n - 1].writes
      /\ n_codes = (IF cli.running THEN n_started - 1 ELSE n_started)
      /\ \A n \in 1..n_codes :
            cli.codes[n] # 0
              => /\ n = n_started
                 /\ cli.exit = <<cli.codes[n]>>
                 /\ cli.pc = "exited"
      /\ \A n \in 2..n_started : cli.codes[n - 1] = 0
      /\ cli.exit = <<0>>
           => /\ n_started = Len(Stages)
              /\ \A n \in 1..n_codes : cli.codes[n] = 0
      /\ (Or(cli.args.events, Get(cli.cfg.data, "events", "")) = ""
            \/ Or(cli.args.results, Get(cli.cfg.data, "results", "")) = "")
           => /\ n_started = 0
              /\ cli.pc \in {"start", "exited"}
              /\ cli.pc = "exited" => cli.exit = <<2>>

\* With the events path from the flag and the results path from the config,
\* prepare and classify returned 0 and elo returned 2: the CLI has exited
\* with 2 and peak was not started.
C18_Witness ==
  /\ cli.pc = "exited"
  /\ cli.args.events # "" /\ cli.args.results = ""
  /\ cli.codes = <<0, 0, 2>>
  /\ Len(cli.started) = 3
  /\ cli.started[3].stage = "elo"
  /\ cli.started[3].reads = cli.started[2].writes
  /\ cli.exit = <<2>>

=============================================================================
